---- MODULE Spec2Model ----
(***************************************************************************)
(* A model of the calculator core of cpp-calculator_vanilla: the Lexer,    *)
(* the Parser, the Evaluator, the EvaluationContext and the Calculator     *)
(* facade.  A text is a sequence of one-character strings.  A double is a  *)
(* decimal floating-point number with a four-digit mantissa and the        *)
(* exponent range of an IEEE double, so that the range limits of std::stod *)
(* and the constant kZeroEpsilon keep their values and only the precision  *)
(* of the mantissa is reduced.                                             *)
(***************************************************************************)
EXTENDS Integers, Sequences, FiniteSets, TLC

VARIABLES variables_, history_, call

vars == <<variables_, history_, call>>

(***************************************************************************)
(* Characters: <cctype> in the "C" locale.                                 *)
(***************************************************************************)
Digits == {"0", "1", "2", "3", "4", "5", "6", "7", "8", "9"}

Letters ==
    {"a", "b", "c", "d", "e", "f", "g", "h", "i", "j", "k", "l", "m",
     "n", "o", "p", "q", "r", "s", "t", "u", "v", "w", "x", "y", "z",
     "A", "B", "C", "D", "E", "F", "G", "H", "I", "J", "K", "L", "M",
     "N", "O", "P", "Q", "R", "S", "T", "U", "V", "W", "X", "Y", "Z"}

Spaces == {" ", "\t", "\n", "\r", "\f"}

isdigit(c) == c \in Digits

isalpha(c) == c \in Letters

isalnum(c) == isalpha(c) \/ isdigit(c)

isspace(c) == c \in Spaces

DigitValue(c) ==
    CASE c = "0" -> 0 [] c = "1" -> 1 [] c = "2" -> 2 [] c = "3" -> 3
      [] c = "4" -> 4 [] c = "5" -> 5 [] c = "6" -> 6 [] c = "7" -> 7
      [] c = "8" -> 8 [] c = "9" -> 9

(* The character a Lexer reads past the end of its input: '\0'. *)
NUL == "\\0"

(***************************************************************************)
(* double.  [c |-> "fin", m, x] is m * 10^x with m = 0 (and x = 0) or      *)
(* MantLo <= |m| <= MantHi; [c |-> "inf", m |-> 1 or -1]; [c |-> "nan"].   *)
(***************************************************************************)
MantLo == 10 * 10 * 10

MantHi == 10 * MantLo - 1

(* DBL_MAX = 1.797...e308 and DBL_MIN = 2.225...e-308 at four digits. *)
DblMaxMant == 1797

DblMaxExp == 305

DblMinMant == 2225

DblMinExp == 0 - 311

Fin(m, x) == [c |-> "fin", m |-> m, x |-> x]

Zero == Fin(0, 0)

Inf(s) == [c |-> "inf", m |-> s, x |-> 0]

NaN == [c |-> "nan", m |-> 0, x |-> 0]

Abs(n) == IF n < 0 THEN 0 - n ELSE n

Sgn(n) == IF n < 0 THEN 0 - 1 ELSE IF n > 0 THEN 1 ELSE 0

RECURSIVE Pow10(_)
Pow10(k) == IF k <= 0 THEN 1 ELSE 10 * Pow10(k - 1)

(* a * 10^x with a > MantHi brought to four digits, rounding the last
   digit dropped to the nearest. *)
RECURSIVE ShrinkMant(_, _)
ShrinkMant(a, x) ==
    IF a > 10 * MantHi + 9 THEN ShrinkMant(a \div 10, x + 1)
    ELSE IF (a + 5) \div 10 > MantHi THEN <<MantLo, x + 2>>
    ELSE <<(a + 5) \div 10, x + 1>>

RECURSIVE GrowMant(_, _)
GrowMant(a, x) ==
    IF a < MantLo THEN GrowMant(a * 10, x - 1) ELSE <<a, x>>

(* |a * 10^x| > DBL_MAX, for a normalised mantissa a. *)
AboveDblMax(a, x) == x > DblMaxExp \/ (x = DblMaxExp /\ a > DblMaxMant)

(* 0 < |a * 10^x| < DBL_MIN, for a normalised mantissa a. *)
BelowDblMin(a, x) == x < DblMinExp \/ (x = DblMinExp /\ a < DblMinMant)

(* The double nearest to s * a * 10^x, a >= 0: overflow gives an infinity
   and underflow gives zero. *)
Round(s, a, x) ==
    IF a = 0 \/ s = 0 THEN Zero
    ELSE LET p == IF a > MantHi THEN ShrinkMant(a, x) ELSE GrowMant(a, x)
         IN  IF AboveDblMax(p[1], p[2]) THEN Inf(s)
             ELSE IF BelowDblMin(p[1], p[2]) THEN Zero
             ELSE Fin(s * p[1], p[2])

Norm(m, x) == Round(Sgn(m), Abs(m), x)

IsNaN(v) == v.c = "nan"

IsInf(v) == v.c = "inf"

IsFin(v) == v.c = "fin"

IsZero(v) == v.c = "fin" /\ v.m = 0

(* The sign of a value that is not a NaN. *)
SignOf(v) == Sgn(v.m)

FNeg(v) == IF IsNaN(v) THEN NaN ELSE [v EXCEPT !.m = 0 - v.m]

FAbs(v) == IF IsNaN(v) THEN NaN ELSE [v EXCEPT !.m = Abs(v.m)]

(* a < b for two positive finite values. *)
PosLess(a, b) == a.x < b.x \/ (a.x = b.x /\ a.m < b.m)

(* a < b; false when either is a NaN. *)
FLess(a, b) ==
    IF IsNaN(a) \/ IsNaN(b) THEN FALSE
    ELSE IF IsInf(a) THEN a.m < 0 /\ ~(IsInf(b) /\ b.m < 0)
    ELSE IF IsInf(b) THEN b.m > 0
    ELSE IF SignOf(a) # SignOf(b) THEN SignOf(a) < SignOf(b)
    ELSE IF SignOf(a) = 0 THEN FALSE
    ELSE IF SignOf(a) > 0 THEN PosLess(a, b)
    ELSE PosLess(FNeg(b), FNeg(a))

FAdd(a, b) ==
    IF IsNaN(a) \/ IsNaN(b) THEN NaN
    ELSE IF IsInf(a) THEN (IF IsInf(b) /\ b.m # a.m THEN NaN ELSE a)
    ELSE IF IsInf(b) THEN b
    ELSE IF a.m = 0 THEN b
    ELSE IF b.m = 0 THEN a
    ELSE LET hi == IF a.x >= b.x THEN a ELSE b
             lo == IF a.x >= b.x THEN b ELSE a
             d  == hi.x - lo.x
         IN  IF d > 4 THEN hi
             ELSE Norm(hi.m * Pow10(d) + lo.m, lo.x)

FSub(a, b) == FAdd(a, FNeg(b))

FMul(a, b) ==
    IF IsNaN(a) \/ IsNaN(b) THEN NaN
    ELSE IF IsInf(a) \/ IsInf(b)
         THEN (IF IsZero(a) \/ IsZero(b) THEN NaN
               ELSE Inf(SignOf(a) * SignOf(b)))
    ELSE Norm(a.m * b.m, a.x + b.x)

FDiv(a, b) ==
    IF IsNaN(a) \/ IsNaN(b) THEN NaN
    ELSE IF IsInf(a) THEN (IF IsInf(b) THEN NaN
                           ELSE Inf(a.m * (IF SignOf(b) < 0 THEN 0 - 1 ELSE 1)))
    ELSE IF IsInf(b) THEN Zero
    ELSE IF b.m = 0 THEN (IF a.m = 0 THEN NaN ELSE Inf(SignOf(a)))
    ELSE Round(SignOf(a) * SignOf(b),
               (Abs(a.m) * Pow10(5)) \div Abs(b.m), a.x - b.x - 5)

(***************************************************************************)
(* <cmath>, at the precision of the model's doubles.                       *)
(***************************************************************************)
One == Fin(MantLo, 0 - 3)

FromInt(n) == Norm(n, 0)

(* 10^d mod mb, by squaring. *)
RECURSIVE Pow10Mod(_, _)
Pow10Mod(d, mb) ==
    IF d = 0 THEN 1 % mb
    ELSE IF d % 2 = 0
         THEN LET h == Pow10Mod(d \div 2, mb) IN (h * h) % mb
    ELSE (10 * Pow10Mod(d - 1, mb)) % mb

(* (r * 10^d) mod mb *)
ModShift(r, mb, d) == (r * Pow10Mod(d, mb)) % mb

(* std::fmod: a - b * trunc(a / b), with the sign of a. *)
FMod(a, b) ==
    IF IsNaN(a) \/ IsNaN(b) \/ IsInf(a) \/ IsZero(b) THEN NaN
    ELSE IF IsInf(b) \/ IsZero(a) THEN a
    ELSE IF PosLess(FAbs(a), FAbs(b)) THEN a
    ELSE Norm(Sgn(a.m) * ModShift(Abs(a.m) % Abs(b.m), Abs(b.m), a.x - b.x),
              b.x)

FFloor(v) ==
    IF ~IsFin(v) \/ v.m = 0 \/ v.x >= 0 THEN v
    ELSE IF v.x < 0 - 3 THEN (IF v.m > 0 THEN Zero ELSE FNeg(One))
    ELSE Norm(v.m \div Pow10(0 - v.x), 0)

FCeil(v) == FNeg(FFloor(FNeg(v)))

(* v is a finite integer. *)
IsIntegral(v) ==
    IsFin(v) /\ (v.m = 0 \/ v.x >= 0
                 \/ (v.x >= 0 - 3 /\ v.m % Pow10(0 - v.x) = 0))

(* |v| as an integer, for an integral v with v.x <= 5. *)
IntOf(v) ==
    IF v.x >= 0 THEN Abs(v.m) * Pow10(v.x) ELSE Abs(v.m) \div Pow10(0 - v.x)

IsOddInt(v) == IsIntegral(v) /\ v.x <= 0 /\ IntOf(v) % 2 = 1

(* a^n for an integer n >= 0, by squaring. *)
RECURSIVE FPowInt(_, _)
FPowInt(a, n) ==
    IF n = 0 THEN One
    ELSE IF n % 2 = 0 THEN LET h == FPowInt(a, n \div 2) IN FMul(h, h)
    ELSE FMul(a, FPowInt(a, n - 1))

(* 1 + z/k * (1 + z/(k+1) * (...)): the tail of the series of exp. *)
RECURSIVE ExpSeries(_, _)
ExpSeries(z, k) ==
    IF k > 9 THEN One
    ELSE FAdd(One, FMul(FDiv(z, FromInt(k)), ExpSeries(z, k + 1)))

RECURSIVE FExp(_)
FExp(z) ==
    IF IsNaN(z) THEN NaN
    ELSE IF IsInf(z) THEN (IF z.m > 0 THEN z ELSE Zero)
    ELSE IF FLess(FromInt(710), z) THEN Inf(1)
    ELSE IF FLess(z, FromInt(0 - 746)) THEN Zero
    ELSE IF PosLess(Fin(5000, 0 - 4), FAbs(z)) /\ z.m # 0
         THEN LET h == FExp(FDiv(z, FromInt(2))) IN FMul(h, h)
    ELSE ExpSeries(z, 1)

Ln2 == Fin(6931, 0 - 4)

Ln10 == Fin(2303, 0 - 3)

(* u + u^3/3 + u^5/5 + ..., from the term u^k/k on, u2 = u^2. *)
RECURSIVE AtanhSeries(_, _, _)
AtanhSeries(uk, u2, k) ==
    IF k > 11 \/ IsZero(uk) THEN Zero
    ELSE FAdd(FDiv(uk, FromInt(k)), AtanhSeries(FMul(uk, u2), u2, k + 2))

(* ln t for 1 <= t < 10 *)
RECURSIVE LnSmall(_)
LnSmall(t) ==
    IF ~FLess(t, FromInt(2)) THEN FAdd(Ln2, LnSmall(FDiv(t, FromInt(2))))
    ELSE LET u == FDiv(FSub(t, One), FAdd(t, One))
         IN  FMul(FromInt(2), AtanhSeries(u, FMul(u, u), 1))

(* std::log *)
FLn(v) ==
    IF IsNaN(v) THEN NaN
    ELSE IF IsZero(v) THEN Inf(0 - 1)
    ELSE IF v.m < 0 THEN NaN
    ELSE IF IsInf(v) THEN v
    ELSE FAdd(LnSmall(Fin(v.m, 0 - 3)), FMul(FromInt(v.x + 3), Ln10))

(* std::log10 *)
FLog10(v) == FDiv(FLn(v), Ln10)

(* The largest r in lo..hi with r * r <= n. *)
RECURSIVE IsqrtIn(_, _, _)
IsqrtIn(n, lo, hi) ==
    IF lo >= hi THEN lo
    ELSE LET mid == (lo + hi + 1) \div 2
         IN  IF mid * mid <= n THEN IsqrtIn(n, mid, hi)
             ELSE IsqrtIn(n, lo, mid - 1)

(* std::sqrt *)
FSqrt(v) ==
    IF IsNaN(v) THEN NaN
    ELSE IF IsZero(v) THEN Zero
    ELSE IF v.m < 0 THEN NaN
    ELSE IF IsInf(v) THEN v
    ELSE LET k == IF v.x % 2 = 0 THEN 4 ELSE 5
         IN  Norm(IsqrtIn(v.m * Pow10(k), 0, 40000), (v.x - k) \div 2)

Pi == Fin(3142, 0 - 3)

TwoPi == Fin(6283, 0 - 3)

(* z brought into [-pi, pi] by a multiple of 2*pi. *)
ReduceAngle(z) ==
    LET r == FMod(z, TwoPi)
    IN  IF FLess(Pi, r) THEN FSub(r, TwoPi)
        ELSE IF FLess(r, FNeg(Pi)) THEN FAdd(r, TwoPi)
        ELSE r

(* 1 - r2/(k(k+1)) * (1 - r2/((k+2)(k+3)) * (...)) *)
RECURSIVE TrigSeries(_, _)
TrigSeries(r2, k) ==
    IF k > 18 THEN One
    ELSE FSub(One, FMul(FDiv(r2, FromInt(k * (k + 1))),
                        TrigSeries(r2, k + 2)))

(* std::sin *)
FSin(z) ==
    IF ~IsFin(z) THEN NaN
    ELSE LET r == ReduceAngle(z) IN FMul(r, TrigSeries(FMul(r, r), 2))

(* std::cos *)
FCos(z) ==
    IF ~IsFin(z) THEN NaN
    ELSE LET r == ReduceAngle(z) IN TrigSeries(FMul(r, r), 1)

(* std::tan *)
FTan(z) == FDiv(FSin(z), FCos(z))

(* std::pow *)
FPow(a, b) ==
    IF IsZero(b) \/ a = One THEN One
    ELSE IF IsNaN(a) \/ IsNaN(b) THEN NaN
    ELSE IF IsInf(b)
         THEN (IF a = FNeg(One) THEN One
               ELSE IF FLess(FAbs(a), One) = (b.m > 0) THEN Zero
               ELSE Inf(1))
    ELSE IF IsInf(a)
         THEN (IF b.m < 0 THEN Zero
               ELSE IF a.m < 0 /\ IsOddInt(b) THEN Inf(0 - 1)
               ELSE Inf(1))
    ELSE IF IsZero(a) THEN (IF b.m > 0 THEN Zero ELSE Inf(1))
    ELSE IF IsIntegral(b)
         THEN (IF b.x > 5
               THEN (IF a = FNeg(One) THEN One
                     ELSE IF FLess(FAbs(a), One) = (b.m > 0) THEN Zero
                     ELSE Inf(1))
               ELSE IF b.m > 0 THEN FPowInt(a, IntOf(b))
               ELSE FDiv(One, FPowInt(a, IntOf(b))))
    ELSE IF a.m < 0 THEN NaN
    ELSE FExp(FMul(b, FLn(a)))

(***************************************************************************)
(* Errors.  kind is the C++ exception class; the message is its format     *)
(* string with the inserted text and numbers kept apart.                   *)
(***************************************************************************)
Error(kind, msg, text, num, num2) ==
    [kind |-> kind, msg |-> msg, text |-> text, num |-> num, num2 |-> num2]

ParseError(msg, text, num) == Error("ParseError", msg, text, num, 0)

EvalError(msg, text, num, num2) == Error("EvalError", msg, text, num, num2)

(* std::out_of_range, thrown by std::stoi and std::stod: not a CalcError. *)
OutOfRange(fn) == Error("std::out_of_range", fn, <<>>, 0, 0)

Throw(err) == [ok |-> FALSE, err |-> err]

(* A throw from code that works on a context: ctx is the context as the
   throwing code left it. *)
ThrowIn(err, ctx) == [ok |-> FALSE, err |-> err, ctx |-> ctx]

UnexpectedTokenMsg == "Unexpected token '%text' at position %num"

InvalidNumberMsg == "Invalid number at position %num"

(***************************************************************************)
(* Token.h                                                                 *)
(***************************************************************************)
TokenType ==
    {"End", "Number", "Identifier", "HistoryRef", "Plus", "Minus", "Star",
     "Slash", "Percent", "Caret", "LParen", "RParen", "Comma", "Assign"}

Token(type, lexeme, position, number_value, history_index) ==
    [type |-> type, lexeme |-> lexeme, position |-> position,
     number_value |-> number_value, history_index |-> history_index]

INT_MAX == 2147483647

(***************************************************************************)
(* std::stod and std::stoi on a lexeme the Lexer has matched.              *)
(***************************************************************************)
ExpCap == Pow10(4)

(* The decimal digits of s from index i on: <<mantissa, exponent>> after
   reading them into the mantissa acc * 10^x (five significant digits are
   kept), frac telling whether the digits follow the decimal point. *)
RECURSIVE ReadMantissa(_, _, _, _, _)
ReadMantissa(s, i, acc, x, frac) ==
    IF i > Len(s) \/ s[i] \in {"e", "E"} THEN <<acc, x, i>>
    ELSE IF s[i] = "." THEN ReadMantissa(s, i + 1, acc, x, TRUE)
    ELSE IF acc <= MantHi
         THEN ReadMantissa(s, i + 1, acc * 10 + DigitValue(s[i]),
                           IF frac THEN x - 1 ELSE x, frac)
         ELSE ReadMantissa(s, i + 1, acc, IF frac THEN x ELSE x + 1, frac)

RECURSIVE ReadExponent(_, _, _)
ReadExponent(s, i, acc) ==
    IF i > Len(s) THEN acc
    ELSE IF s[i] \in {"+", "-"} THEN ReadExponent(s, i + 1, acc)
    ELSE ReadExponent(s, i + 1,
                      IF acc >= ExpCap THEN ExpCap
                      ELSE acc * 10 + DigitValue(s[i]))

(* std::stod: the value, or std::out_of_range when strtod reports ERANGE
   (overflow, or a non-zero result below DBL_MIN). *)
stod(s) ==
    LET mt == ReadMantissa(s, 1, 0, 0, FALSE)
        ei == mt[3]
        neg == ei < Len(s) /\ s[ei + 1] = "-"
        ex == IF ei > Len(s) THEN 0
              ELSE IF neg THEN 0 - ReadExponent(s, ei + 1, 0)
              ELSE ReadExponent(s, ei + 1, 0)
        p == IF mt[1] > MantHi THEN ShrinkMant(mt[1], mt[2] + ex)
             ELSE GrowMant(mt[1], mt[2] + ex)
    IN  IF mt[1] = 0 THEN [ok |-> TRUE, value |-> Zero]
        ELSE IF AboveDblMax(p[1], p[2]) \/ BelowDblMin(p[1], p[2])
             THEN Throw(OutOfRange("stod"))
        ELSE [ok |-> TRUE, value |-> Fin(p[1], p[2])]

(* The digits of s from index i on, read into acc; -1 once the value
   exceeds INT_MAX. *)
RECURSIVE ReadInt(_, _, _)
ReadInt(s, i, acc) ==
    IF i > Len(s) THEN acc
    ELSE IF acc > (INT_MAX - DigitValue(s[i])) \div 10 THEN 0 - 1
    ELSE ReadInt(s, i + 1, acc * 10 + DigitValue(s[i]))

(* std::stoi: the value, or std::out_of_range when it does not fit an int. *)
stoi(s) ==
    LET v == ReadInt(s, 1, 0)
    IN  IF v < 0 THEN Throw(OutOfRange("stoi"))
        ELSE [ok |-> TRUE, value |-> v]

(***************************************************************************)
(* Lexer.cpp.  pos is the Lexer's pos_, a 0-based offset into input.       *)
(***************************************************************************)
isAtEnd(input, pos) == pos >= Len(input)

currentChar(input, pos) == IF isAtEnd(input, pos) THEN NUL ELSE input[pos + 1]

peekChar(input, pos) ==
    IF pos + 1 < Len(input) THEN input[pos + 2] ELSE NUL

(* Lexer::advance *)
lexAdvance(input, pos) == IF isAtEnd(input, pos) THEN pos ELSE pos + 1

substr(input, start, count) ==
    SubSeq(input, start + 1,
           IF start + count > Len(input) THEN Len(input) ELSE start + count)

RECURSIVE skipWhitespace(_, _)
skipWhitespace(input, pos) ==
    IF ~isAtEnd(input, pos) /\ isspace(currentChar(input, pos))
    THEN skipWhitespace(input, lexAdvance(input, pos))
    ELSE pos

(* while (isdigit(currentChar())) advance(); *)
RECURSIVE skipDigits(_, _)
skipDigits(input, pos) ==
    IF isdigit(currentChar(input, pos))
    THEN skipDigits(input, lexAdvance(input, pos))
    ELSE pos

isIdentifierStart(c) == isalpha(c) \/ c = "_"

isIdentifierPart(c) == isalnum(c) \/ c = "_"

RECURSIVE skipIdentifier(_, _)
skipIdentifier(input, pos) ==
    IF isIdentifierPart(currentChar(input, pos))
    THEN skipIdentifier(input, lexAdvance(input, pos))
    ELSE pos

lexNumber(input, start) ==
    LET p1 == skipDigits(input, start)
        dot == currentChar(input, p1) = "."
        p2 == IF dot THEN skipDigits(input, lexAdvance(input, p1)) ELSE p1
        has_digits == p1 > start \/ (dot /\ p2 > p1 + 1)
        hasExp == currentChar(input, p2) \in {"e", "E"}
        exp_start == p2
        p3 == lexAdvance(input, p2)
        p4 == IF currentChar(input, p3) \in {"+", "-"}
              THEN lexAdvance(input, p3) ELSE p3
        p5 == skipDigits(input, p4)
        exp_digits == p5 - p4
        pos == IF hasExp THEN p5 ELSE p2
        lexeme == substr(input, start, pos - start)
        value == stod(lexeme)
    IN  IF ~has_digits
        THEN Throw(ParseError(UnexpectedTokenMsg,
                              <<currentChar(input, p2)>>, start))
        ELSE IF hasExp /\ exp_digits = 0
        THEN Throw(ParseError(InvalidNumberMsg, <<>>, exp_start))
        ELSE IF ~value.ok THEN value
        ELSE [ok |-> TRUE, pos |-> pos,
              token |-> Token("Number", lexeme, start, value.value, 0)]

lexIdentifier(input, start) ==
    LET pos == skipIdentifier(input, start)
    IN  [ok |-> TRUE, pos |-> pos,
         token |-> Token("Identifier", substr(input, start, pos - start),
                         start, Zero, 0)]

lexHistoryRef(input, start) ==
    LET p1 == lexAdvance(input, start)
        pos == skipDigits(input, p1)
        digits == pos - p1
        text == substr(input, start + 1, digits)
        index == stoi(text)
    IN  IF digits = 0
        THEN Throw(ParseError(UnexpectedTokenMsg, <<"$">>, start))
        ELSE IF ~index.ok THEN index
        ELSE [ok |-> TRUE, pos |-> pos,
              token |-> Token("HistoryRef", <<"$">> \o text, start, Zero,
                              index.value)]

(* The switch of Lexer::tokenize: the type of a one-character token, or
   "" for the default case. *)
PunctType(c) ==
    CASE c = "+" -> "Plus" [] c = "-" -> "Minus" [] c = "*" -> "Star"
      [] c = "/" -> "Slash" [] c = "%" -> "Percent" [] c = "^" -> "Caret"
      [] c = "(" -> "LParen" [] c = ")" -> "RParen" [] c = "," -> "Comma"
      [] c = "=" -> "Assign" [] OTHER -> ""

(* The loop of Lexer::tokenize from pos_ = pos0 with the tokens so far. *)
RECURSIVE tokenizeLoop(_, _, _)
tokenizeLoop(input, pos0, tokens) ==
    LET pos == IF isAtEnd(input, pos0) THEN pos0
               ELSE skipWhitespace(input, pos0)
        c == currentChar(input, pos)
        token_pos == pos
        lexed ==
            IF isdigit(c) \/ (c = "." /\ isdigit(peekChar(input, pos)))
            THEN lexNumber(input, pos)
            ELSE IF isIdentifierStart(c) THEN lexIdentifier(input, pos)
            ELSE IF c = "$" THEN lexHistoryRef(input, pos)
            ELSE IF PunctType(c) = ""
            THEN Throw(ParseError(UnexpectedTokenMsg, <<c>>, token_pos))
            ELSE [ok |-> TRUE, pos |-> lexAdvance(input, pos),
                  token |-> Token(PunctType(c), <<c>>, token_pos, Zero, 0)]
    IN  IF isAtEnd(input, pos)
        THEN [ok |-> TRUE,
              tokens |-> Append(tokens, Token("End", <<>>, pos, Zero, 0))]
        ELSE IF ~lexed.ok THEN lexed
        ELSE tokenizeLoop(input, lexed.pos, Append(tokens, lexed.token))

(* Lexer::tokenize: [ok |-> TRUE, tokens] or [ok |-> FALSE, err]. *)
tokenize(input) == tokenizeLoop(input, 0, <<>>)

(***************************************************************************)
(* AST.h                                                                   *)
(***************************************************************************)
NumberNode(value) == [kind |-> "Number", value |-> value]

VariableNode(name) == [kind |-> "Variable", name |-> name]

HistoryRefNode(index) == [kind |-> "HistoryRef", index |-> index]

UnaryNode(op, operand) == [kind |-> "Unary", op |-> op, operand |-> operand]

BinaryNode(op, left, right) ==
    [kind |-> "Binary", op |-> op, left |-> left, right |-> right]

CallNode(name, args) == [kind |-> "Call", name |-> name, args |-> args]

AssignmentNode(name, expression) ==
    [kind |-> "Assignment", name |-> name, expression |-> expression]

(***************************************************************************)
(* Parser.cpp.  pos is the Parser's pos_, a 0-based index into tokens_.    *)
(* A parse function yields [ok |-> TRUE, node, pos] or [ok |-> FALSE, err].*)
(***************************************************************************)
current(tokens, pos) == tokens[pos + 1]

peek(tokens, pos) ==
    IF pos + 1 >= Len(tokens) THEN tokens[Len(tokens)] ELSE tokens[pos + 2]

check(tokens, pos, type) == current(tokens, pos).type = type

(* advance without the bound check on pos_. *)
advance_PastEnd(tokens, pos) == pos + 1

(* Parser::advance: the new pos_. *)
advance(tokens, pos) == IF pos < Len(tokens) - 1 THEN pos + 1 ELSE pos

EndShown == <<"<", "e", "n", "d", ">">>

(* throwUnexpected showing the lexeme of every token, End included. *)
throwUnexpected_NoPlaceholder(token) ==
    Throw(ParseError(UnexpectedTokenMsg, token.lexeme, token.position))

throwUnexpected(token) ==
    LET shown == IF token.lexeme = <<>> THEN EndShown ELSE token.lexeme
    IN  Throw(ParseError(UnexpectedTokenMsg, shown, token.position))

(* Parser::expect: the new pos_, or the error. *)
expect(tokens, pos, type) ==
    IF ~check(tokens, pos, type) THEN throwUnexpected(current(tokens, pos))
    ELSE [ok |-> TRUE, pos |-> advance(tokens, pos)]

Parsed(node, pos) == [ok |-> TRUE, node |-> node, pos |-> pos]

RECURSIVE parseAdditive(_, _)
RECURSIVE additiveLoop(_, _)
RECURSIVE parseMultiplicative(_, _)
RECURSIVE multiplicativeLoop(_, _)
RECURSIVE parseUnary(_, _)
RECURSIVE parsePower(_, _)
RECURSIVE parsePrimary(_, _)
RECURSIVE parseArgs(_, _, _)

parseExpression(tokens, pos) == parseAdditive(tokens, pos)

(* std::make_unique<BinaryNode>(op, std::move(node), std::move(rhs)) once
   the right operand rhs is parsed; the error of rhs if it threw. *)
makeBinary(op, node, rhs) ==
    IF ~rhs.ok THEN rhs
    ELSE Parsed(BinaryNode(op, node, rhs.node), rhs.pos)

(* The while (true) loop of parseAdditive; lhs is the parse of the node
   built so far. *)
additiveLoop(tokens, lhs) ==
    LET type == current(tokens, lhs.pos).type
        op == IF type = "Plus" THEN "Add" ELSE "Subtract"
    IN  IF ~lhs.ok THEN lhs
        ELSE IF type \notin {"Plus", "Minus"} THEN lhs
        ELSE additiveLoop(tokens,
                 makeBinary(op, lhs.node,
                     parseMultiplicative(tokens, advance(tokens, lhs.pos))))

parseAdditive(tokens, pos) ==
    additiveLoop(tokens, parseMultiplicative(tokens, pos))

(* The while (true) loop of parseMultiplicative; lhs is the parse of the
   node built so far. *)
multiplicativeLoop(tokens, lhs) ==
    LET type == current(tokens, lhs.pos).type
        op == IF type = "Star" THEN "Multiply"
              ELSE IF type = "Slash" THEN "Divide" ELSE "Modulo"
    IN  IF ~lhs.ok THEN lhs
        ELSE IF type \notin {"Star", "Slash", "Percent"} THEN lhs
        ELSE multiplicativeLoop(tokens,
                 makeBinary(op, lhs.node,
                     parseUnary(tokens, advance(tokens, lhs.pos))))

parseMultiplicative(tokens, pos) ==
    multiplicativeLoop(tokens, parseUnary(tokens, pos))

(* std::make_unique<UnaryNode>(UnaryOp::Negate, parseUnary()). *)
makeNegate(operand) ==
    IF ~operand.ok THEN operand
    ELSE Parsed(UnaryNode("Negate", operand.node), operand.pos)

(* parsePower after its parsePrimary call returned base. *)
powerOf(tokens, base) ==
    IF ~base.ok THEN base
    ELSE IF ~check(tokens, base.pos, "Caret") THEN base
    ELSE makeBinary("Power", base.node,
                    parseUnary(tokens, advance(tokens, base.pos)))

(* parseUnary negating the primary alone, '-' binding tighter than '^'. *)
parseUnary_NegatePrimary(tokens, pos) ==
    IF check(tokens, pos, "Minus")
    THEN powerOf(tokens, makeNegate(parsePrimary(tokens, advance(tokens, pos))))
    ELSE parsePower(tokens, pos)

parseUnary(tokens, pos) ==
    IF check(tokens, pos, "Minus")
    THEN makeNegate(parseUnary(tokens, advance(tokens, pos)))
    ELSE parsePower(tokens, pos)

parsePower(tokens, pos) == powerOf(tokens, parsePrimary(tokens, pos))

(* The argument loop of parsePrimary after parseExpression returned arg,
   args being the arguments before it: [ok, args, pos] after the last
   argument, or the error. *)
parseArgs(tokens, args, arg) ==
    IF ~arg.ok THEN arg
    ELSE IF check(tokens, arg.pos, "Comma")
    THEN parseArgs(tokens, Append(args, arg.node),
                   parseExpression(tokens, advance(tokens, arg.pos)))
    ELSE [ok |-> TRUE, args |-> Append(args, arg.node), pos |-> arg.pos]

(* expect(TokenType::RParen) and the CallNode, after the argument list. *)
makeCall(tokens, name, list) ==
    LET close == expect(tokens, list.pos, "RParen")
    IN  IF ~list.ok THEN list
        ELSE IF ~close.ok THEN close
        ELSE Parsed(CallNode(name, list.args), close.pos)

(* expect(TokenType::RParen) after the expression of a group. *)
closeGroup(tokens, inner) ==
    LET close == expect(tokens, inner.pos, "RParen")
    IN  IF ~inner.ok THEN inner
        ELSE IF ~close.ok THEN close
        ELSE Parsed(inner.node, close.pos)

parsePrimary(tokens, pos) ==
    LET tok == current(tokens, pos)
        p1 == advance(tokens, pos)
        p2 == advance(tokens, p1)
    IN  CASE tok.type = "Number" -> Parsed(NumberNode(tok.number_value), p1)
          [] tok.type = "HistoryRef" ->
                Parsed(HistoryRefNode(tok.history_index), p1)
          [] tok.type = "Identifier" ->
                IF ~check(tokens, p1, "LParen")
                THEN Parsed(VariableNode(tok.lexeme), p1)
                ELSE IF check(tokens, p2, "RParen")
                THEN makeCall(tokens, tok.lexeme,
                              [ok |-> TRUE, args |-> <<>>, pos |-> p2])
                ELSE makeCall(tokens, tok.lexeme,
                              parseArgs(tokens, <<>>,
                                        parseExpression(tokens, p2)))
          [] tok.type = "LParen" ->
                closeGroup(tokens, parseExpression(tokens, p1))
          [] OTHER -> throwUnexpected(tok)

(* std::make_unique<AssignmentNode>(name, parseExpression()). *)
makeAssignment(name, rhs) ==
    IF ~rhs.ok THEN rhs
    ELSE Parsed(AssignmentNode(name, rhs.node), rhs.pos)

(* parseStatement returning its tree without looking for the End token. *)
expectEnd_Unchecked(tokens, parsed) == parsed

(* The check of parseStatement that the End token follows the statement. *)
expectEnd(tokens, parsed) ==
    IF ~parsed.ok THEN parsed
    ELSE IF ~check(tokens, parsed.pos, "End")
    THEN throwUnexpected(current(tokens, parsed.pos))
    ELSE parsed

(* parseStatement taking any first token followed by '=' for a target. *)
parseStatement_AnyTarget(tokens) ==
    IF peek(tokens, 0).type = "Assign"
    THEN expectEnd(tokens,
             makeAssignment(current(tokens, 0).lexeme,
                 parseExpression(tokens, advance(tokens, advance(tokens, 0)))))
    ELSE expectEnd(tokens, parseExpression(tokens, 0))

(* Parser::parseStatement on a fresh Parser: [ok |-> TRUE, node, pos] or
   [ok |-> FALSE, err]. *)
parseStatement(tokens) ==
    IF check(tokens, 0, "Identifier") /\ peek(tokens, 0).type = "Assign"
    THEN expectEnd(tokens,
             makeAssignment(current(tokens, 0).lexeme,
                 parseExpression(tokens, advance(tokens, advance(tokens, 0)))))
    ELSE expectEnd(tokens, parseExpression(tokens, 0))

(***************************************************************************)
(* Context.cpp.  A context is [variables, history]: variables maps the     *)
(* bound names (sequences of characters) to their values.                  *)
(***************************************************************************)
NamePi == <<"p", "i">>

NameE == <<"e">>

(* EvaluationContext::EvaluationContext: pi = acos(-1.0), e = exp(1.0). *)
NewContext ==
    [variables |-> [n \in {NamePi, NameE} |-> IF n = NamePi THEN Pi
                                              ELSE FExp(One)],
     history |-> <<>>]

hasVariable(ctx, name) == name \in DOMAIN ctx.variables

getVariable(ctx, name) ==
    IF name \notin DOMAIN ctx.variables
    THEN Throw(EvalError("Unknown variable '%text'", name, 0, 0))
    ELSE [ok |-> TRUE, value |-> ctx.variables[name]]

(* setVariable storing the value before it checks the name. *)
setVariable_StoreThenCheck(ctx, name, value) ==
    LET stored == [ctx EXCEPT !.variables =
                      [n \in DOMAIN ctx.variables \cup {name} |->
                          IF n = name THEN value ELSE ctx.variables[n]]]
    IN  IF name = NamePi \/ name = NameE
        THEN ThrowIn(EvalError("Cannot assign to constant '%text'", name, 0, 0),
                     stored)
        ELSE [ok |-> TRUE, ctx |-> stored]

(* setVariable protecting pi alone. *)
setVariable_OnlyPi(ctx, name, value) ==
    IF name = NamePi
    THEN ThrowIn(EvalError("Cannot assign to constant '%text'", name, 0, 0),
                 ctx)
    ELSE [ok |-> TRUE,
          ctx |-> [ctx EXCEPT !.variables =
                      [n \in DOMAIN ctx.variables \cup {name} |->
                          IF n = name THEN value ELSE ctx.variables[n]]]]

(* setVariable inserting without overwriting (map::insert). *)
setVariable_InsertOnly(ctx, name, value) ==
    IF name = NamePi \/ name = NameE
    THEN ThrowIn(EvalError("Cannot assign to constant '%text'", name, 0, 0),
                 ctx)
    ELSE [ok |-> TRUE,
          ctx |-> [ctx EXCEPT !.variables =
                      [n \in DOMAIN ctx.variables \cup {name} |->
                          IF n \in DOMAIN ctx.variables THEN ctx.variables[n]
                          ELSE value]]]

(* EvaluationContext::setVariable: [ok |-> TRUE, ctx], or the error with
   the context as the call left it. *)
setVariable(ctx, name, value) ==
    IF name = NamePi \/ name = NameE
    THEN ThrowIn(EvalError("Cannot assign to constant '%text'", name, 0, 0),
                 ctx)
    ELSE [ok |-> TRUE,
          ctx |-> [ctx EXCEPT !.variables =
                      [n \in DOMAIN ctx.variables \cup {name} |->
                          IF n = name THEN value ELSE ctx.variables[n]]]]

(* pushHistory skipping a value equal to the last entry. *)
pushHistory_Dedup(ctx, value) ==
    IF ctx.history # <<>> /\ ctx.history[Len(ctx.history)] = value THEN ctx
    ELSE [ctx EXCEPT !.history = Append(ctx.history, value)]

pushHistory(ctx, value) == [ctx EXCEPT !.history = Append(ctx.history, value)]

getHistoryValue(ctx, one_based_index) ==
    IF one_based_index <= 0 \/ one_based_index > Len(ctx.history)
    THEN Throw(EvalError("History reference '$%num' out of range", <<>>,
                         one_based_index, 0))
    ELSE [ok |-> TRUE, value |-> ctx.history[one_based_index]]

(***************************************************************************)
(* Evaluator.cpp.  An evaluation yields [ok |-> TRUE, value, ctx] or       *)
(* [ok |-> FALSE, err, ctx]: ctx is the context as the evaluation left it, *)
(* also when it threw.                                                     *)
(***************************************************************************)
kZeroEpsilon == Fin(MantLo, 0 - 15)

Value(value, ctx) == [ok |-> TRUE, value |-> value, ctx |-> ctx]

(* requireArgCount accepting more arguments than expected. *)
requireArgCount_AtLeast(name, args, expected) ==
    IF Len(args) < expected
    THEN Throw(EvalError(
             "Function '%text' expects %num argument(s) but got %num2",
             name, expected, Len(args)))
    ELSE [ok |-> TRUE]

requireArgCount(name, args, expected) ==
    IF Len(args) # expected
    THEN Throw(EvalError(
             "Function '%text' expects %num argument(s) but got %num2",
             name, expected, Len(args)))
    ELSE [ok |-> TRUE]

requireAtLeastArgs(name, args, min_count) ==
    IF Len(args) < min_count
    THEN Throw(EvalError(
             "Function '%text' expects at least %num argument(s) but got %num2",
             name, min_count, Len(args)))
    ELSE [ok |-> TRUE]

(* std::min_element from index i on, best being the smallest so far. *)
RECURSIVE min_element(_, _, _)
min_element(args, i, best) ==
    IF i > Len(args) THEN best
    ELSE min_element(args, i + 1,
                     IF FLess(args[i], best) THEN args[i] ELSE best)

RECURSIVE max_element(_, _, _)
max_element(args, i, best) ==
    IF i > Len(args) THEN best
    ELSE max_element(args, i + 1,
                     IF FLess(best, args[i]) THEN args[i] ELSE best)

UnaryFunctions ==
    {<<"s", "i", "n">>, <<"c", "o", "s">>, <<"t", "a", "n">>,
     <<"s", "q", "r", "t">>, <<"l", "o", "g">>, <<"l", "o", "g", "1", "0">>,
     <<"a", "b", "s">>, <<"c", "e", "i", "l">>, <<"f", "l", "o", "o", "r">>}

NameMin == <<"m", "i", "n">>

NameMax == <<"m", "a", "x">>

(* The library function evalCall applies for a one-argument builtin. *)
ApplyUnary(fn, v) ==
    CASE fn = <<"s", "i", "n">> -> FSin(v)
      [] fn = <<"c", "o", "s">> -> FCos(v)
      [] fn = <<"t", "a", "n">> -> FTan(v)
      [] fn = <<"s", "q", "r", "t">> -> FSqrt(v)
      [] fn = <<"l", "o", "g">> -> FLn(v)
      [] fn = <<"l", "o", "g", "1", "0">> -> FLog10(v)
      [] fn = <<"a", "b", "s">> -> FAbs(v)
      [] fn = <<"c", "e", "i", "l">> -> FCeil(v)
      [] fn = <<"f", "l", "o", "o", "r">> -> FFloor(v)

(* The dispatch of evalCall once the arguments are evaluated. *)
applyFunction(fn, args) ==
    IF fn \in UnaryFunctions
    THEN LET chk == requireArgCount(fn, args, 1)
         IN  IF ~chk.ok THEN chk
             ELSE [ok |-> TRUE, value |-> ApplyUnary(fn, args[1])]
    ELSE IF fn = NameMin
    THEN LET chk == requireAtLeastArgs(fn, args, 1)
         IN  IF ~chk.ok THEN chk
             ELSE [ok |-> TRUE, value |-> min_element(args, 2, args[1])]
    ELSE IF fn = NameMax
    THEN LET chk == requireAtLeastArgs(fn, args, 1)
         IN  IF ~chk.ok THEN chk
             ELSE [ok |-> TRUE, value |-> max_element(args, 2, args[1])]
    ELSE Throw(EvalError("Unknown function '%text'", fn, 0, 0))

(* applyBinary comparing the divisor with 0.0 instead of kZeroEpsilon. *)
applyBinary_ExactZero(op, lhs, rhs) ==
    CASE op = "Add" -> [ok |-> TRUE, value |-> FAdd(lhs, rhs)]
      [] op = "Subtract" -> [ok |-> TRUE, value |-> FSub(lhs, rhs)]
      [] op = "Multiply" -> [ok |-> TRUE, value |-> FMul(lhs, rhs)]
      [] op = "Divide" ->
            IF IsZero(rhs)
            THEN Throw(EvalError("Division by zero", <<>>, 0, 0))
            ELSE [ok |-> TRUE, value |-> FDiv(lhs, rhs)]
      [] op = "Modulo" ->
            IF IsZero(rhs)
            THEN Throw(EvalError("Modulo by zero", <<>>, 0, 0))
            ELSE [ok |-> TRUE, value |-> FMod(lhs, rhs)]
      [] op = "Power" -> [ok |-> TRUE, value |-> FPow(lhs, rhs)]
      [] OTHER -> Throw(EvalError("Unsupported binary operator", <<>>, 0, 0))

(* The switch of evalBinary on two evaluated operands. *)
applyBinary(op, lhs, rhs) ==
    CASE op = "Add" -> [ok |-> TRUE, value |-> FAdd(lhs, rhs)]
      [] op = "Subtract" -> [ok |-> TRUE, value |-> FSub(lhs, rhs)]
      [] op = "Multiply" -> [ok |-> TRUE, value |-> FMul(lhs, rhs)]
      [] op = "Divide" ->
            IF FLess(FAbs(rhs), kZeroEpsilon)
            THEN Throw(EvalError("Division by zero", <<>>, 0, 0))
            ELSE [ok |-> TRUE, value |-> FDiv(lhs, rhs)]
      [] op = "Modulo" ->
            IF FLess(FAbs(rhs), kZeroEpsilon)
            THEN Throw(EvalError("Modulo by zero", <<>>, 0, 0))
            ELSE [ok |-> TRUE, value |-> FMod(lhs, rhs)]
      [] op = "Power" -> [ok |-> TRUE, value |-> FPow(lhs, rhs)]
      [] OTHER -> Throw(EvalError("Unsupported binary operator", <<>>, 0, 0))

RECURSIVE evalNode(_, _)
RECURSIVE evalArgs(_, _, _)

(* A value or an error res computed without touching the context, as the
   outcome of an evaluation that leaves the context ctx. *)
Returned(res, ctx) ==
    IF ~res.ok THEN ThrowIn(res.err, ctx) ELSE Value(res.value, ctx)

(* args.push_back of the evaluated argument arg. *)
pushArg(done, arg) ==
    IF ~arg.ok THEN arg
    ELSE [ok |-> TRUE, args |-> Append(done.args, arg.value), ctx |-> arg.ctx]

(* The switch of evalUnary on the evaluated operand. *)
negate(op, operand) ==
    IF ~operand.ok THEN operand
    ELSE IF op = "Negate" THEN Value(FNeg(operand.value), operand.ctx)
    ELSE ThrowIn(EvalError("Unsupported unary operator", <<>>, 0, 0),
                 operand.ctx)

(* The switch of evalBinary once both operands are evaluated. *)
combine(op, lhs, rhs) ==
    IF ~rhs.ok THEN rhs
    ELSE Returned(applyBinary(op, lhs.value, rhs.value), rhs.ctx)

(* The dispatch of evalCall on the evaluated arguments. *)
callFunction(fn, args) ==
    IF ~args.ok THEN args
    ELSE Returned(applyFunction(fn, args.args), args.ctx)

(* context_.setVariable(name, value); return value. *)
assign(name, value) ==
    LET set == setVariable(value.ctx, name, value.value)
    IN  IF ~value.ok THEN value
        ELSE IF ~set.ok THEN set
        ELSE Value(value.value, set.ctx)

(* The argument loop of evalCall from the argument i on; done is
   [ok |-> TRUE, args, ctx] with the arguments evaluated so far, or the
   error one of them threw. *)
evalArgs(nodes, i, done) ==
    IF ~done.ok \/ i > Len(nodes) THEN done
    ELSE evalArgs(nodes, i + 1, pushArg(done, evalNode(nodes[i], done.ctx)))

(* evalRight letting the error of the right operand win over the error of
   the left one. *)
evalRight_RightWins(node, lhs) ==
    IF ~evalNode(node.right, lhs.ctx).ok THEN evalNode(node.right, lhs.ctx)
    ELSE IF ~lhs.ok THEN lhs
    ELSE combine(node.op, lhs, evalNode(node.right, lhs.ctx))

(* evalBinary after its left operand: the right operand is evaluated on
   the context the left one left. *)
evalRight(node, lhs) ==
    IF ~lhs.ok THEN lhs
    ELSE combine(node.op, lhs, evalNode(node.right, lhs.ctx))

evalUnary(node, ctx) == negate(node.op, evalNode(node.operand, ctx))

evalBinary(node, ctx) ==
    evalRight(node, evalNode(node.left, ctx))

evalCall(node, ctx) ==
    callFunction(node.name,
                 evalArgs(node.args, 1,
                          [ok |-> TRUE, args |-> <<>>, ctx |-> ctx]))

(* The Assignment branch of evalNode. *)
evalAssignment(node, ctx) ==
    assign(node.name, evalNode(node.expression, ctx))

evalNode(node, ctx) ==
    CASE node.kind = "Number" -> Value(node.value, ctx)
      [] node.kind = "Variable" -> Returned(getVariable(ctx, node.name), ctx)
      [] node.kind = "HistoryRef" ->
            Returned(getHistoryValue(ctx, node.index), ctx)
      [] node.kind = "Unary" -> evalUnary(node, ctx)
      [] node.kind = "Binary" -> evalBinary(node, ctx)
      [] node.kind = "Call" -> evalCall(node, ctx)
      [] node.kind = "Assignment" -> evalAssignment(node, ctx)
      [] OTHER -> ThrowIn(EvalError("Unsupported expression node", <<>>, 0, 0),
                          ctx)

(* Evaluator::evaluate *)
evaluate(node, ctx) == evalNode(node, ctx)

(***************************************************************************)
(* Calculator.cpp.  Calculator::evaluate on the context ctx:               *)
(* [ok |-> TRUE, value, ctx] or [ok |-> FALSE, err, ctx], ctx being the    *)
(* Calculator's context_ when the call returns or throws.                  *)
(***************************************************************************)
(* Parser parser(lexer.tokenize()); parser.parseStatement(): the parse, or
   the error of whichever of the two threw. *)
parseTokens(lexed) ==
    IF ~lexed.ok THEN lexed ELSE parseStatement(lexed.tokens)

(* Evaluator::evaluate of the tree on context_, unless the statement did not
   parse. *)
evaluateAst(ast, ctx) ==
    IF ~ast.ok THEN ThrowIn(ast.err, ctx) ELSE evaluate(ast.node, ctx)

(* context_.pushHistory(value); return value. *)
recordValue(res) ==
    IF ~res.ok THEN res
    ELSE Value(res.value, pushHistory(res.ctx, res.value))

CalculatorEvaluate(ctx, expression) ==
    recordValue(evaluateAst(parseTokens(tokenize(expression)), ctx))

(***************************************************************************)
(* The state machine.  variables_ and history_ are the Calculator's        *)
(* context_; call records the last call made with its arguments, the       *)
(* context before it and its outcome.                                      *)
(***************************************************************************)
MaxHistory == 3

MaxLexLen == 4

MaxParseLen == 4

MaxExprLen == 5

(* All texts over the characters A of length at most n. *)
Strings(A, n) == UNION {[1..k -> A] : k \in 0..n}

LexChars == {"1", "0", ".", "e", "-", "$", "x", " ", "@"}

ParseChars == {"2", "x", "+", "*", "^", "-", "(", ")", ",", "="}

ExprChars == {"2", "+", "-", "*", "/", "%", "^"}

(* The statements given to Calculator::evaluate. *)
SessionStatements ==
    {<<"1", "0">>,
     <<"2", "0">>,
     <<"$", "1", " ", "+", " ", "$", "2">>,
     <<"$", "1">>,
     <<"x", " ", "=", " ", "1", "0">>,
     <<"x", " ", "=", " ", "2", "0">>,
     <<"x">>,
     <<"y", " ", "=", " ", "x">>,
     <<"p", "i">>,
     <<"x", " ", "=", " ", "$", "1">>,
     <<>>,
     <<"@">>,
     <<"1", "e">>,
     <<"$">>,
     <<"2", " ", "+">>,
     <<"2", " ", "+", " ", "*", " ", "3">>,
     <<"x", " ", "=", " ", "1", "0", " ", ")">>,
     <<"f", "o", "o", "(", "1", ")">>,
     <<"y">>,
     <<"$", "0">>,
     <<"$", "3">>,
     <<"1", "/", "0">>,
     <<"p", "i", " ", "=", " ", "1", "0">>,
     <<"e", " ", "=", " ", "2", "0">>,
     <<"p", "i", " ", "=", " ", "y">>,
     <<"x", " ", "=", " ", "1", "/", "0">>,
     <<"x", " ", "=", " ", "y", " ", "=", " ", "3">>,
     <<"$", "9", "9", "9", "9", "9", "9", "9", "9", "9", "9", "9">>,
     <<"$", "2", "1", "4", "7", "4", "8", "3", "6", "4", "8">>,
     <<"1", "e", "9", "9", "9">>,
     <<"x", " ", "=", " ", "(", "y", " ", "=", " ", "1", ")">>,
     <<"m", "i", "n", "(", ")">>,
     <<"e">>,
     <<"2", " ", "+", " ", "*", " ", "3", " ", "@">>,
     <<"f", "o", "o", "(", "1", ")", " ", ")">>,
     <<"x", " ", "=", " ", "1", " ", ")">>}

(* Texts given to Lexer::tokenize besides the short texts. *)
LexExamples ==
    {<<"$", "9", "9", "9", "9", "9", "9", "9", "9", "9", "9", "9">>,
     <<"$", "2", "1", "4", "7", "4", "8", "3", "6", "4", "7">>,
     <<"$", "2", "1", "4", "7", "4", "8", "3", "6", "4", "8">>,
     <<"1", "e", "9", "9", "9">>,
     <<"1", "e", "-", "9", "9", "9">>,
     <<"1", "e", "3", "0", "8">>,
     <<"2", "e", "3", "0", "8">>,
     <<"3", ".", "1", "4">>,
     <<"x", "_", "1", " ", "=", " ", ".", "5", "e", "+", "2">>,
     <<"l", "o", "g", "1", "0", "(", "1", "0", "0", ")">>,
     <<"2", " ", "+", " ", "*", " ", "3", " ", "@">>,
     <<"1", "e", "+">>,
     <<"$", " ", "1">>,
     <<"\t", "1", "\n">>}

(* Texts tokenized and given to Parser::parseStatement besides the short texts. *)
ParseExamples ==
    {<<"2", " ", "+", " ", "3", " ", "*", " ", "4">>,
     <<"(", "2", " ", "+", " ", "3", ")", " ", "*", " ", "4">>,
     <<"2", "^", "3", "^", "2">>,
     <<"-", "2", "^", "2">>,
     <<"2", "^", "-", "2">>,
     <<"x", " ", "=", " ", "y", " ", "=", " ", "3">>,
     <<"x", " ", "=", " ", "(", "y", " ", "=", " ", "3", ")">>,
     <<"f", "(", "x", " ", "=", " ", "1", ")">>,
     <<"2", " ", "+", " ", "*", " ", "3">>,
     <<"2", " ", "+">>,
     <<>>,
     <<"x", " ", "=", " ", "f", "(", "2", ",", " ", "-", "x", ")", " ", "%", " ", "2", " ", "/", " ", "2">>,
     <<"2", " ", "*", " ", "-", "2", " ", "+", " ", "2", " ", "^", " ", "2", " ", "^", " ", "-", "2", " ", "-", " ", "2">>,
     <<"f", "(", ")">>,
     <<"f", "(", "2", ",", ")">>,
     <<"$", "1", " ", "+", " ", "$", "2">>,
     <<"2", " ", "=", " ", "2">>,
     <<"-", "2", " ", "*", " ", "2", " ", "^", " ", "2", " ", "-", " ", "2", " ", "/", " ", "2">>,
     <<"2", " ", "^", " ", "2", " ", "*", " ", "2", " ", "+", " ", "2">>}

SessionTexts == SessionStatements

LexTexts == Strings(LexChars, MaxLexLen) \cup LexExamples

(* Only a text that tokenizes reaches the Parser. *)
ParseTexts ==
    {t \in Strings(ParseChars, MaxParseLen) \cup Strings(ExprChars, MaxExprLen)
           \cup ParseExamples : tokenize(t).ok}

NoError == Error("", "", <<>>, 0, 0)

Context == [variables |-> variables_, history |-> history_]

(* The outcome of a call: ok with a value, or a thrown error. *)
Outcome(r) ==
    [ok |-> r.ok, value |-> IF r.ok THEN r.value ELSE Zero,
     err |-> IF r.ok THEN NoError ELSE r.err]

Init ==
    /\ variables_ = NewContext.variables
    /\ history_ = NewContext.history
    /\ call = [op |-> "none"]

(* The Calculator and the record of the call after evaluate(text) returned
   or threw r. *)
EvaluateEnds(text, r) ==
    /\ variables_' = r.ctx.variables
    /\ history_' = r.ctx.history
    /\ call' = [op |-> "evaluate", text |-> text, pre |-> Context,
                result |-> Outcome(r)]

(* One call of Calculator::evaluate(text). *)
Evaluate(text) ==
    /\ Len(history_) < MaxHistory
    /\ EvaluateEnds(text, CalculatorEvaluate(Context, text))

Next == \E text \in SessionTexts : Evaluate(text)

Spec == Init /\ [][Next]_vars

(* Lexer(text).tokenize() for a text drawn at the start. *)
LexInit ==
    /\ variables_ = NewContext.variables
    /\ history_ = NewContext.history
    /\ call \in {[op |-> "lexer", text |-> t] : t \in LexTexts}

Tokenize ==
    /\ call.op = "lexer"
    /\ LET r == tokenize(call.text)
       IN  call' = [op |-> "tokenize", text |-> call.text, ok |-> r.ok,
                    tokens |-> IF r.ok THEN r.tokens ELSE <<>>,
                    err |-> IF r.ok THEN NoError ELSE r.err]
    /\ UNCHANGED <<variables_, history_>>

LexNext == Tokenize

LexSpec == LexInit /\ [][LexNext]_vars

(* Parser(tokens).parseStatement() for the tokens of a text drawn at the
   start. *)
ParseInit ==
    /\ variables_ = NewContext.variables
    /\ history_ = NewContext.history
    /\ call \in {[op |-> "parser", text |-> t, tokens |-> tokenize(t).tokens] :
                    t \in ParseTexts}

NoNode == [kind |-> "none"]

Parse ==
    /\ call.op = "parser"
    /\ LET r == parseStatement(call.tokens)
       IN  call' = [op |-> "parseStatement", text |-> call.text,
                    tokens |-> call.tokens, ok |-> r.ok,
                    pos |-> IF r.ok THEN r.pos ELSE 0,
                    node |-> IF r.ok THEN r.node ELSE NoNode,
                    err |-> IF r.ok THEN NoError ELSE r.err]
    /\ UNCHANGED <<variables_, history_>>

ParseNext == Parse

ParseSpec == ParseInit /\ [][ParseNext]_vars

(***************************************************************************)
(* Evaluator(context).evaluate(tree) for a tree and a context drawn at the *)
(* start.                                                                  *)
(***************************************************************************)
MaxArgs == 3

NameX == <<"x">>

NameBar == <<"b", "a", "r">>

NameFoo == <<"f", "o", "o">>

NameSin == <<"s", "i", "n">>

NameSqrt == <<"s", "q", "r", "t">>

(* 1e-13 and -1e-13 are below kZeroEpsilon in magnitude, 1e-12 is not. *)
TinyNode == NumberNode(Fin(MantLo, 0 - 16))

(* Operand trees: values that are zero, near zero, negative, a NaN, a
   variable, and trees that throw each error of the Evaluator. *)
Operands ==
    {NumberNode(Zero), NumberNode(One), NumberNode(FromInt(2)),
     TinyNode, NumberNode(kZeroEpsilon),
     UnaryNode("Negate", TinyNode),
     UnaryNode("Negate", NumberNode(FromInt(2))),
     CallNode(NameSqrt, <<UnaryNode("Negate", NumberNode(One))>>),
     VariableNode(NameX),
     VariableNode(NameBar),
     CallNode(NameFoo, <<NumberNode(One)>>),
     BinaryNode("Divide", NumberNode(One), NumberNode(Zero)),
     CallNode(NameSin, <<>>),
     HistoryRefNode(9)}

ArgOperands ==
    {NumberNode(One), NumberNode(FromInt(2)),
     UnaryNode("Negate", NumberNode(FromInt(2))),
     VariableNode(NameBar),
     CallNode(NameFoo, <<NumberNode(One)>>)}

BinaryOps == {"Add", "Subtract", "Multiply", "Divide", "Modulo", "Power"}

CallNames == UnaryFunctions \cup {NameMin, NameMax, NameFoo, NameX, NamePi}

(* The trees given to Evaluator::evaluate. *)
EvalTrees ==
    Operands
    \cup {BinaryNode(op, l, r) : op \in BinaryOps, l \in Operands, r \in Operands}
    \cup {UnaryNode("Negate", n) : n \in Operands}
    \cup {CallNode(fn, args) : fn \in CallNames,
                               args \in Strings(ArgOperands, MaxArgs)}
    \cup {AssignmentNode(name, n) : name \in {NameX, NamePi}, n \in Operands}

(* The context after "x = 2", "foo = 1" and "sin = 1" on a new Calculator. *)
BoundContext ==
    pushHistory(
        setVariable(
            setVariable(
                setVariable(NewContext, NameX, FromInt(2)).ctx,
                NameFoo, One).ctx,
            NameSin, One).ctx,
        One)

EvalContexts == {NewContext, BoundContext}

EvalInit ==
    /\ \E ctx \in EvalContexts :
          /\ variables_ = ctx.variables
          /\ history_ = ctx.history
    /\ call \in {[op |-> "evaluator", node |-> n] : n \in EvalTrees}

(* The context and the record of the call after evaluate(node) returned or
   threw r. *)
EvalEnds(node, r) ==
    /\ variables_' = r.ctx.variables
    /\ history_' = r.ctx.history
    /\ call' = [op |-> "evaluated", node |-> node, pre |-> Context,
                result |-> Outcome(r)]

Eval ==
    /\ call.op = "evaluator"
    /\ EvalEnds(call.node, evaluate(call.node, Context))

EvalNext == Eval

EvalSpec == EvalInit /\ [][EvalNext]_vars

(***************************************************************************)
(* main.cpp and Repl.cpp: evaluateFile over the lines of a file and        *)
(* Repl::run over the lines of an input stream, one loop iteration per     *)
(* step.  call holds the position of the loop: the lines, the number of    *)
(* lines read, the line numbers given to Calculator::evaluate and those    *)
(* reported on the error stream, and status: "running", "returned", or     *)
(* "terminated" when an exception left the loop uncaught (std::terminate). *)
(***************************************************************************)
MaxLines == 3

RECURSIVE trimLeft(_)
trimLeft(input) ==
    IF input = <<>> THEN <<>>
    ELSE IF isspace(Head(input)) THEN trimLeft(Tail(input))
    ELSE input

RECURSIVE trimRight(_)
trimRight(input) ==
    IF input = <<>> THEN <<>>
    ELSE IF isspace(input[Len(input)])
    THEN trimRight(SubSeq(input, 1, Len(input) - 1))
    ELSE input

trim(input) == trimRight(trimLeft(input))

(* catch (const calc::CalcError&) catches err. *)
IsCalcError(err) == err.kind \in {"ParseError", "EvalError"}

(* The lines of the files and input streams. *)
FrontLines ==
    {<<"1", "0">>,
     <<" ", "x", " ", "=", " ", "$", "1", " ">>,
     <<>>,
     <<" ", "#", " ", "c">>,
     <<"1", "/", "0">>,
     <<"2", " ", "+">>,
     <<"$", "9", "9", "9", "9", "9", "9", "9", "9", "9", "9", "9">>,
     <<"e", "x", "i", "t">>,
     <<"h", "i", "s", "t", "o", "r", "y">>}

FrontInit ==
    /\ variables_ = NewContext.variables
    /\ history_ = NewContext.history
    /\ call \in {[op |-> op, lines |-> lines, line_number |-> 0,
                  evaluated |-> <<>>, reported |-> <<>>, has_error |-> FALSE,
                  status |-> "running", result |-> 0] :
                    op \in {"evaluateFile", "Repl::run"},
                    lines \in Strings(FrontLines, MaxLines)}

(* The try block of both loops on line n, r being what
   calculator.evaluate returned or threw. *)
TryEvaluate(n, r) ==
    /\ variables_' = r.ctx.variables
    /\ history_' = r.ctx.history
    /\ call' = IF r.ok
               THEN [call EXCEPT !.line_number = n,
                                 !.evaluated = Append(@, n)]
               ELSE IF IsCalcError(r.err)
               THEN [call EXCEPT !.line_number = n,
                                 !.evaluated = Append(@, n),
                                 !.reported = Append(@, n),
                                 !.has_error = TRUE]
               ELSE [call EXCEPT !.line_number = n,
                                 !.evaluated = Append(@, n),
                                 !.status = "terminated"]

(* continue: the loop goes on to line n + 1. *)
Continue(n) ==
    /\ call' = [call EXCEPT !.line_number = n]
    /\ UNCHANGED <<variables_, history_>>

(* One iteration of the while loop of evaluateFile. *)
FileLine ==
    /\ call.op = "evaluateFile"
    /\ call.status = "running"
    /\ call.line_number < Len(call.lines)
    /\ LET n == call.line_number + 1
           expr == trim(call.lines[n])
       IN  IF expr = <<>> \/ expr[1] = "#" THEN Continue(n)
           ELSE TryEvaluate(n, CalculatorEvaluate(Context, expr))

(* std::getline fails: return has_error ? 1 : 0. *)
FileReturn ==
    /\ call.op = "evaluateFile"
    /\ call.status = "running"
    /\ call.line_number = Len(call.lines)
    /\ call' = [call EXCEPT !.status = "returned",
                            !.result = IF call.has_error THEN 1 ELSE 0]
    /\ UNCHANGED <<variables_, history_>>

(* break: Repl::run returns, and main returns 0. *)
Break(n) ==
    /\ call' = [call EXCEPT !.line_number = n, !.status = "returned"]
    /\ UNCHANGED <<variables_, history_>>

(* One iteration of the while loop of Repl::run on a line read. *)
ReplLine ==
    /\ call.op = "Repl::run"
    /\ call.status = "running"
    /\ call.line_number < Len(call.lines)
    /\ LET n == call.line_number + 1
           line == trim(call.lines[n])
       IN  IF line = <<>> THEN Continue(n)
           ELSE IF line = <<"e", "x", "i", "t">> \/ line = <<"q", "u", "i", "t">>
           THEN Break(n)
           ELSE IF line = <<"h", "e", "l", "p">>
                   \/ line = <<"h", "i", "s", "t", "o", "r", "y">>
           THEN Continue(n)
           ELSE TryEvaluate(n, CalculatorEvaluate(Context, line))

(* std::getline fails at the end of the input: break. *)
ReplEnd ==
    /\ call.op = "Repl::run"
    /\ call.status = "running"
    /\ call.line_number = Len(call.lines)
    /\ Break(call.line_number)

FrontNext == FileLine \/ FileReturn \/ ReplLine \/ ReplEnd

FrontSpec == FrontInit /\ [][FrontNext]_vars

(***************************************************************************)
(* Properties of Calculator::evaluate, checked under Spec.                 *)
(***************************************************************************)
Called == call.op = "evaluate"

Succeeded == Called /\ call.result.ok

Failed == Called /\ ~call.result.ok

(* The first two tokens of text are an identifier and '='. *)
IsAssignText(text) ==
    LET l == tokenize(text)
    IN  /\ l.ok
        /\ Len(l.tokens) >= 2
        /\ l.tokens[1].type = "Identifier"
        /\ l.tokens[2].type = "Assign"

(* The name an assignment text assigns to, and the text right of its '='. *)
AssignTarget(text) == tokenize(text).tokens[1].lexeme

AssignRhs(text) ==
    SubSeq(text, tokenize(text).tokens[2].position + 2, Len(text))

(* C1: a failed evaluate leaves the variable bindings and the history
   exactly as they were before the call. *)
C1_FailedEvaluateHasNoSideEffects ==
    Failed => /\ variables_ = call.pre.variables
              /\ history_ = call.pre.history

(* An assignment to pi, whose right-hand side was computed, has failed in a
   session that holds a user variable and a history entry. *)
C1_Witness ==
    /\ Failed
    /\ IsAssignText(call.text)
    /\ AssignTarget(call.text) = NamePi
    /\ CalculatorEvaluate(call.pre, AssignRhs(call.text)).ok
    /\ call.result.err.kind = "EvalError"
    /\ history_ # <<>>
    /\ <<"x">> \in DOMAIN variables_

(* C2: every successful evaluate appends exactly the value it returned to
   the history and every failed one leaves the history as it was, so the
   history is the sequence of the values returned, in call order. *)
C2_HistoryIsReturnedValues ==
    Called => IF call.result.ok
              THEN history_ = Append(call.pre.history, call.result.value)
              ELSE history_ = call.pre.history

(* An assignment statement has succeeded a second time with the same value:
   the history holds that value twice. *)
C2_Witness ==
    /\ Succeeded
    /\ IsAssignText(call.text)
    /\ Len(history_) >= 2
    /\ history_[Len(history_) - 1] = call.result.value
    /\ history_[Len(history_)] = call.result.value

(* The text is '$' followed by one or more digits. *)
IsHistoryRefText(text) ==
    /\ Len(text) >= 2
    /\ text[1] = "$"
    /\ \A i \in 2..Len(text) : isdigit(text[i])

(* The number the digits of s from index i on denote, read into acc, or
   cap + 1 when it is larger than cap. *)
RECURSIVE DecimalCapped(_, _, _, _)
DecimalCapped(s, i, acc, cap) ==
    IF i > Len(s) THEN acc
    ELSE IF acc * 10 + DigitValue(s[i]) > cap THEN cap + 1
    ELSE DecimalCapped(s, i + 1, acc * 10 + DigitValue(s[i]), cap)

(* C3: the statement $N yields the N-th history value when 1 <= N <= L, L
   the history length when the call started, and otherwise fails with an
   EvalError. *)
C3_HistoryRefInRangeOrEvalError ==
    Called /\ IsHistoryRefText(call.text) =>
        LET L == Len(call.pre.history)
            N == DecimalCapped(call.text, 2, 0, L)
        IN  IF 1 <= N /\ N <= L
            THEN call.result.ok /\ call.result.value = call.pre.history[N]
            ELSE ~call.result.ok /\ call.result.err.kind = "EvalError"

(* C4: pi and e stay bound to the values they were seeded with, and an
   assignment to pi or e whose right-hand side evaluates fails with an
   EvalError that names the constant. *)
C4_ConstantsAreProtected ==
    /\ {NamePi, NameE} \subseteq DOMAIN variables_
    /\ variables_[NamePi] = NewContext.variables[NamePi]
    /\ variables_[NameE] = NewContext.variables[NameE]
    /\ (Called /\ IsAssignText(call.text)
        /\ AssignTarget(call.text) \in {NamePi, NameE}
        /\ CalculatorEvaluate(call.pre, AssignRhs(call.text)).ok)
       => /\ ~call.result.ok
          /\ call.result.err.kind = "EvalError"
          /\ call.result.err.text = AssignTarget(call.text)

(* "e = 20" has been evaluated. *)
C4_Witness ==
    /\ Called
    /\ IsAssignText(call.text)
    /\ AssignTarget(call.text) = NameE
    /\ CalculatorEvaluate(call.pre, AssignRhs(call.text)).ok
    /\ call.pre.history # <<>>

(* m with name bound to value. *)
Bind(m, name, value) ==
    [n \in DOMAIN m \cup {name} |-> IF n = name THEN value ELSE m[n]]

(* C5: no call removes a variable; a successful statement that is not an
   assignment changes no binding; a successful assignment binds its target
   to the value returned, which is the value appended to the history, and
   changes no other binding. *)
C5_AtMostOneBindingChanges ==
    Called =>
        /\ DOMAIN call.pre.variables \subseteq DOMAIN variables_
        /\ call.result.ok =>
              IF IsAssignText(call.text)
              THEN /\ variables_ = Bind(call.pre.variables,
                                        AssignTarget(call.text),
                                        call.result.value)
                   /\ history_[Len(history_)] = call.result.value
              ELSE variables_ = call.pre.variables

(* A successful assignment has overwritten x with another value while y is
   bound. *)
C5_Witness ==
    /\ Succeeded
    /\ IsAssignText(call.text)
    /\ AssignTarget(call.text) = <<"x">>
    /\ <<"x">> \in DOMAIN call.pre.variables
    /\ call.pre.variables[<<"x">>] # call.result.value
    /\ <<"y">> \in DOMAIN call.pre.variables

(***************************************************************************)
(* Properties of Lexer::tokenize, checked under LexSpec.                   *)
(***************************************************************************)

(* C6: tokenize returns a token sequence or fails with the Lexer's
   ParseError, and '$' followed by digits is always tokenized as a history
   reference. *)
C6_TokenizeTotalApartFromLexicalError ==
    call.op = "tokenize" =>
        /\ call.ok \/ call.err.kind = "ParseError"
        /\ IsHistoryRefText(call.text) =>
              /\ call.ok
              /\ call.tokens[1].type = "HistoryRef"

(* The stage at which evaluate(text) fails on the context ctx, or "none". *)
FailureStage(ctx, text) ==
    LET l == tokenize(text)
        ast == parseStatement(l.tokens)
    IN  IF ~l.ok THEN "lexical"
        ELSE IF ~ast.ok THEN "syntax"
        ELSE IF ~evaluate(ast.node, ctx).ok THEN "evaluation"
        ELSE "none"

(* C7: the kind of an error tells the stage that failed: an EvalError is an
   evaluation failure and conversely, and the kind of a lexical failure is
   the kind of no syntax failure. *)
C7_ErrorKindTellsFailureStage ==
    Failed =>
        /\ FailureStage(call.pre, call.text) = "evaluation"
              <=> call.result.err.kind = "EvalError"
        /\ FailureStage(call.pre, call.text) = "lexical" =>
              \A t \in SessionTexts :
                  FailureStage(call.pre, t) = "syntax" =>
                      CalculatorEvaluate(call.pre, t).err.kind
                          # call.result.err.kind

(* text without its last n characters. *)
DropLast(text, n) == SubSeq(text, 1, Len(text) - n)

(* The text is a statement that parses, followed by " )". *)
IsStatementThenRParen(text) ==
    /\ Len(text) > 2
    /\ SubSeq(text, Len(text) - 1, Len(text)) = <<" ", ")">>
    /\ tokenize(DropLast(text, 2)).ok
    /\ parseStatement(tokenize(DropLast(text, 2)).tokens).ok

(* C16: the stages run in sequence.  A text that does not tokenize fails
   with the error of tokenize, and a text that tokenizes but does not parse
   fails with the error of parseStatement, the context left as it was in
   both cases.  So a '@' after a text that tokenizes is the error reported
   whatever that text is, and a ')' after a statement that parses is the
   error reported whatever evaluating the statement would do. *)
C16_StagesRunInSequence ==
    Called =>
        /\ ~tokenize(call.text).ok =>
               /\ Failed
               /\ call.result.err = tokenize(call.text).err
               /\ Context = call.pre
        /\ (tokenize(call.text).ok
              /\ ~parseStatement(tokenize(call.text).tokens).ok) =>
               /\ Failed
               /\ call.result.err
                      = parseStatement(tokenize(call.text).tokens).err
               /\ Context = call.pre
        /\ \A i \in 1..Len(call.text) :
               (call.text[i] = "@" /\ tokenize(SubSeq(call.text, 1, i - 1)).ok) =>
                   /\ Failed
                   /\ call.result.err
                          = ParseError(UnexpectedTokenMsg, <<"@">>, i - 1)
        /\ IsStatementThenRParen(call.text) =>
               /\ Failed
               /\ call.result.err
                      = ParseError(UnexpectedTokenMsg, <<")">>,
                                   Len(call.text) - 1)
               /\ Context = call.pre

(* "foo(1) )" has reported the ')' and not the unknown function, or an
   assignment followed by ')' has failed leaving its target unbound. *)
C16_Witness ==
    /\ Failed
    /\ IsStatementThenRParen(call.text)
    /\ call.result.err.text = <<")">>
    /\ \/ ~evaluate(parseStatement(tokenize(DropLast(call.text, 2)).tokens).node,
                    call.pre).ok
       \/ /\ IsAssignText(call.text)
          /\ <<"x">> \notin DOMAIN variables_

(***************************************************************************)
(* Properties of Parser::parseStatement, checked under ParseSpec.          *)
(***************************************************************************)
ParsedCall == call.op = "parseStatement"

(* The types of the tokens before the End token. *)
TokenTypes(tokens) == [i \in 1..(Len(tokens) - 1) |-> tokens[i].type]

OpToken(op) ==
    CASE op = "Add" -> "Plus" [] op = "Subtract" -> "Minus"
      [] op = "Multiply" -> "Star" [] op = "Divide" -> "Slash"
      [] op = "Modulo" -> "Percent" [] op = "Power" -> "Caret"

(* The token types that write a tree without grouping parentheses. *)
RECURSIVE Yield(_)
RECURSIVE YieldArgs(_, _)
Yield(node) ==
    CASE node.kind = "Number" -> <<"Number">>
      [] node.kind = "Variable" -> <<"Identifier">>
      [] node.kind = "HistoryRef" -> <<"HistoryRef">>
      [] node.kind = "Unary" -> <<"Minus">> \o Yield(node.operand)
      [] node.kind = "Binary" ->
            Yield(node.left) \o <<OpToken(node.op)>> \o Yield(node.right)
      [] node.kind = "Call" ->
            <<"Identifier", "LParen">> \o YieldArgs(node.args, 1)
                \o <<"RParen">>
      [] node.kind = "Assignment" ->
            <<"Identifier", "Assign">> \o Yield(node.expression)

YieldArgs(args, i) ==
    IF i > Len(args) THEN <<>>
    ELSE IF i = Len(args) THEN Yield(args[i])
    ELSE Yield(args[i]) \o <<"Comma">> \o YieldArgs(args, i + 1)

(* The grammar level of a tree: 1 additive, 2 multiplicative, 3 unary,
   4 power, 5 primary. *)
Level(node) ==
    IF node.kind = "Binary"
    THEN (IF node.op \in {"Add", "Subtract"} THEN 1
          ELSE IF node.op = "Power" THEN 4 ELSE 2)
    ELSE IF node.kind = "Unary" THEN 3
    ELSE 5

(* The tree is one the grammar derives without grouping parentheses:
     additive       := multiplicative (('+' | '-') multiplicative)*
     multiplicative := unary (('*' | '/' | '%') unary)*
     unary          := '-' unary | power
     power          := primary ('^' unary)?                                *)
RECURSIVE Shape(_)
Shape(node) ==
    IF node.kind = "Binary"
    THEN /\ Shape(node.left)
         /\ Shape(node.right)
         /\ Level(node) = 1 => Level(node.right) >= 2
         /\ Level(node) = 2 =>
                Level(node.left) >= 2 /\ Level(node.right) >= 3
         /\ Level(node) = 4 =>
                Level(node.left) = 5 /\ Level(node.right) >= 3
    ELSE IF node.kind = "Unary"
    THEN Shape(node.operand) /\ Level(node.operand) >= 3
    ELSE IF node.kind = "Call"
    THEN \A i \in 1..Len(node.args) : Shape(node.args[i])
    ELSE IF node.kind = "Assignment"
    THEN Shape(node.expression)
    ELSE TRUE

(* No '(' of the tokens opens a group: each follows an identifier. *)
NoGroupingParens(tokens) ==
    \A i \in 1..Len(tokens) :
        tokens[i].type = "LParen" => i > 1 /\ tokens[i - 1].type = "Identifier"

(* The token types with the parentheses of groups left out; stack holds the
   open parentheses, TRUE for the '(' of a call. *)
RECURSIVE StripGroups(_, _, _)
StripGroups(types, i, stack) ==
    IF i > Len(types) THEN <<>>
    ELSE IF types[i] = "LParen"
    THEN LET isCall == i > 1 /\ types[i - 1] = "Identifier"
         IN  (IF isCall THEN <<"LParen">> ELSE <<>>)
                 \o StripGroups(types, i + 1, Append(stack, isCall))
    ELSE IF types[i] = "RParen" /\ stack # <<>>
    THEN (IF stack[Len(stack)] THEN <<"RParen">> ELSE <<>>)
             \o StripGroups(types, i + 1, SubSeq(stack, 1, Len(stack) - 1))
    ELSE <<types[i]>> \o StripGroups(types, i + 1, stack)

Num(n) == NumberNode(FromInt(n))

(* Texts of the specification's examples. *)
T234 == <<"2", " ", "+", " ", "3", " ", "*", " ", "4">>

TP234 == <<"(", "2", " ", "+", " ", "3", ")", " ", "*", " ", "4">>

T232 == <<"2", "^", "3", "^", "2">>

TM22 == <<"-", "2", "^", "2">>

T2M2 == <<"2", "^", "-", "2">>

TMixed == <<"2", " ", "*", " ", "-", "2", " ", "+", " ", "2", " ", "^", " ", "2", " ", "^", " ", "-", "2", " ", "-", " ", "2">>

TXY3 == <<"x", " ", "=", " ", "y", " ", "=", " ", "3">>

T2Plus == <<"2", " ", "+">>

(* C8: an accepted statement is parsed into a tree whose operands and
   operators are its tokens in order; without grouping parentheses the tree
   is the one the grammar derives for the tokens ('+' '-' left-associative
   and loosest, '*' '/' '%' left-associative and tighter, '^'
   right-associative and tighter than a leading '-', its right operand
   possibly a negation); and the examples of the specification are parsed
   into the trees it names. *)
C8_ParseBuildsGrammarTree ==
    ParsedCall =>
        /\ call.ok =>
              Yield(call.node) = StripGroups(TokenTypes(call.tokens), 1, <<>>)
        /\ (call.ok /\ NoGroupingParens(call.tokens)) =>
              /\ Yield(call.node) = TokenTypes(call.tokens)
              /\ Shape(call.node)
        /\ call.text = T234 =>
              call.ok /\ call.node = BinaryNode("Add", Num(2),
                                         BinaryNode("Multiply", Num(3), Num(4)))
        /\ call.text = TP234 =>
              call.ok /\ call.node = BinaryNode("Multiply",
                                         BinaryNode("Add", Num(2), Num(3)),
                                         Num(4))
        /\ call.text = T232 =>
              call.ok /\ call.node = BinaryNode("Power", Num(2),
                                         BinaryNode("Power", Num(3), Num(2)))
        /\ call.text = TM22 =>
              call.ok /\ call.node = UnaryNode("Negate",
                                         BinaryNode("Power", Num(2), Num(2)))
        /\ call.text = T2M2 =>
              call.ok /\ call.node = BinaryNode("Power", Num(2),
                                         UnaryNode("Negate", Num(2)))

(* A statement with all of + - * ^ and a negated exponent has been parsed. *)
C8_Witness ==
    /\ ParsedCall
    /\ call.ok
    /\ call.text = TMixed
    /\ Level(call.node) = 1
    /\ Shape(call.node)

(* The number of Assignment nodes of a tree. *)
RECURSIVE Assignments(_)
RECURSIVE AssignmentsIn(_, _)
Assignments(node) ==
    CASE node.kind = "Assignment" -> 1 + Assignments(node.expression)
      [] node.kind = "Unary" -> Assignments(node.operand)
      [] node.kind = "Binary" -> Assignments(node.left) + Assignments(node.right)
      [] node.kind = "Call" -> AssignmentsIn(node.args, 1)
      [] OTHER -> 0

AssignmentsIn(args, i) ==
    IF i > Len(args) THEN 0
    ELSE Assignments(args[i]) + AssignmentsIn(args, i + 1)

StartsWithAssignment(tokens) ==
    /\ Len(tokens) >= 2
    /\ tokens[1].type = "Identifier"
    /\ tokens[2].type = "Assign"

(* C9: an accepted statement has an Assignment for its root exactly when its
   first two tokens are an identifier and '=', and no Assignment elsewhere;
   a '=' anywhere else makes parseStatement fail with a ParseError. *)
C9_AssignmentOnlyAtRoot ==
    ParsedCall =>
        /\ (\E i \in 1..Len(call.tokens) :
                /\ call.tokens[i].type = "Assign"
                /\ ~(i = 2 /\ StartsWithAssignment(call.tokens)))
           => ~call.ok /\ call.err.kind = "ParseError"
        /\ call.ok =>
              /\ call.node.kind = "Assignment"
                    <=> StartsWithAssignment(call.tokens)
              /\ Assignments(call.node)
                    = (IF StartsWithAssignment(call.tokens) THEN 1 ELSE 0)

(* "x = y = 3" has been rejected. *)
C9_Witness ==
    /\ ParsedCall
    /\ call.text = TXY3
    /\ ~call.ok
    /\ call.err.text = <<"=">>

(* The grammar as a pushdown recognizer over token types: the index of the
   first token that cannot continue a statement, 0 when the tokens are a
   statement followed by End.  operand tells whether an operand is due,
   stack holds the open parentheses ("group" or "call"), afterIdent that the
   last token was an identifier and afterOpen that it was the '(' of a
   call. *)
RECURSIVE FirstBad(_, _, _, _, _, _)
FirstBad(tokens, i, operand, stack, afterIdent, afterOpen) ==
    LET type == tokens[i].type
        top == IF stack = <<>> THEN "" ELSE stack[Len(stack)]
        pop == SubSeq(stack, 1, Len(stack) - 1)
    IN  IF operand
        THEN CASE type \in {"Number", "HistoryRef"} ->
                    FirstBad(tokens, i + 1, FALSE, stack, FALSE, FALSE)
               [] type = "Identifier" ->
                    FirstBad(tokens, i + 1, FALSE, stack, TRUE, FALSE)
               [] type = "Minus" ->
                    FirstBad(tokens, i + 1, TRUE, stack, FALSE, FALSE)
               [] type = "LParen" ->
                    FirstBad(tokens, i + 1, TRUE, Append(stack, "group"),
                             FALSE, FALSE)
               [] type = "RParen" /\ afterOpen ->
                    FirstBad(tokens, i + 1, FALSE, pop, FALSE, FALSE)
               [] OTHER -> i
        ELSE CASE type \in {"Plus", "Minus", "Star", "Slash", "Percent",
                            "Caret"} ->
                    FirstBad(tokens, i + 1, TRUE, stack, FALSE, FALSE)
               [] type = "LParen" /\ afterIdent ->
                    FirstBad(tokens, i + 1, TRUE, Append(stack, "call"),
                             FALSE, TRUE)
               [] type = "Comma" /\ top = "call" ->
                    FirstBad(tokens, i + 1, TRUE, stack, FALSE, FALSE)
               [] type = "RParen" /\ stack # <<>> ->
                    FirstBad(tokens, i + 1, FALSE, pop, FALSE, FALSE)
               [] type = "Assign" /\ i = 2 /\ afterIdent ->
                    FirstBad(tokens, i + 1, TRUE, stack, FALSE, FALSE)
               [] type = "End" /\ stack = <<>> -> 0
               [] OTHER -> i

(* C10: parseStatement succeeds exactly on a statement followed by End,
   having read up to the End token; otherwise it fails with a ParseError
   that names the first token that cannot continue the statement ("<end>"
   for the End token) and its position. *)
C10_SyntaxErrorNamesFirstBadToken ==
    ParsedCall =>
        LET bad == FirstBad(call.tokens, 1, TRUE, <<>>, FALSE, FALSE)
        IN  IF bad = 0
            THEN /\ call.ok
                 /\ call.pos = Len(call.tokens) - 1
                 /\ call.tokens[call.pos + 1].type = "End"
            ELSE /\ ~call.ok
                 /\ call.err.kind = "ParseError"
                 /\ call.err.msg = UnexpectedTokenMsg
                 /\ call.err.text = (IF call.tokens[bad].type = "End"
                                     THEN EndShown
                                     ELSE call.tokens[bad].lexeme)
                 /\ call.err.num = call.tokens[bad].position

(* "2 +" has been rejected at its End token. *)
C10_Witness ==
    /\ ParsedCall
    /\ call.text = T2Plus
    /\ ~call.ok
    /\ call.err.text = EndShown
    /\ call.err.num = 3

(***************************************************************************)
(* Properties of Evaluator::evaluate, checked under EvalSpec.              *)
(***************************************************************************)
Evaluated == call.op = "evaluated"

(* Every argument of the call node evaluates successfully on ctx. *)
AllArgsOk(node, ctx) ==
    \A i \in 1..Len(node.args) : evaluate(node.args[i], ctx).ok

ArgValues(node, ctx) ==
    {evaluate(node.args[i], ctx).value : i \in 1..Len(node.args)}

(* The builtins of one argument, as the specification lists them. *)
ExactlyOneArg ==
    {<<"s", "i", "n">>, <<"c", "o", "s">>, <<"t", "a", "n">>,
     <<"s", "q", "r", "t">>, <<"l", "o", "g">>, <<"l", "o", "g", "1", "0">>,
     <<"a", "b", "s">>, <<"c", "e", "i", "l">>, <<"f", "l", "o", "o", "r">>}

(* The call failed with an EvalError stating name, required and got. *)
ArityError(msg, name, required, got) ==
    /\ ~call.result.ok
    /\ call.result.err = EvalError(msg, name, required, got)

(* C11: a call whose arguments all evaluate succeeds exactly when its name
   is a builtin and the argument count fits (1 for the nine functions of one
   argument, at least 1 for min and max, which return the least and the
   greatest argument); another name fails with an EvalError naming it, also
   when a variable of that name is bound, and a wrong count fails with an
   EvalError stating the name, the required and the actual count. *)
C11_CallSucceedsIffBuiltinAndArity ==
    (Evaluated /\ call.node.kind = "Call" /\ AllArgsOk(call.node, call.pre)) =>
        LET fn == call.node.name
            n == Len(call.node.args)
            values == ArgValues(call.node, call.pre)
        IN  IF fn \in ExactlyOneArg
            THEN IF n = 1 THEN call.result.ok
                 ELSE ArityError(
                          "Function '%text' expects %num argument(s) but got %num2",
                          fn, 1, n)
            ELSE IF fn \in {<<"m", "i", "n">>, <<"m", "a", "x">>}
            THEN IF n = 0
                 THEN ArityError(
                          "Function '%text' expects at least %num argument(s) but got %num2",
                          fn, 1, 0)
                 ELSE /\ call.result.ok
                      /\ call.result.value \in values
                      /\ \A v \in values :
                            IF fn = <<"m", "i", "n">>
                            THEN ~FLess(v, call.result.value)
                            ELSE ~FLess(call.result.value, v)
            ELSE /\ ~call.result.ok
                 /\ call.result.err
                       = EvalError("Unknown function '%text'", fn, 0, 0)

(* foo(..) has failed although a variable foo is bound, and max has picked
   the greatest of three different arguments. *)
C11_Witness ==
    /\ Evaluated
    /\ call.node.kind = "Call"
    /\ AllArgsOk(call.node, call.pre)
    /\ \/ /\ call.node.name = NameFoo
          /\ NameFoo \in DOMAIN call.pre.variables
          /\ Len(call.node.args) = 2
          /\ ~call.result.ok
       \/ /\ call.node.name = NameMax
          /\ Cardinality(ArgValues(call.node, call.pre)) = 3
          /\ call.result.ok

(* |v| < 1e-12: the mantissa of a normalised value is at least MantLo, so
   m * 10^x is below MantLo * 10^-15 exactly when m = 0 or x < -15. *)
NearZero(v) == v.c = "fin" /\ (v.m = 0 \/ v.x < 0 - 15)

(* The binary node evaluated has operands that both evaluate. *)
BinaryWithOperands ==
    /\ Evaluated
    /\ call.node.kind = "Binary"
    /\ evaluate(call.node.left, call.pre).ok
    /\ evaluate(call.node.right, call.pre).ok

(* C12: with both operands evaluated, '/' and '%' fail with an EvalError
   exactly when the right operand is below 1e-12 in magnitude, whatever the
   left operand is, and the other operators never fail. *)
C12_OnlyZeroDivisorFails ==
    BinaryWithOperands =>
        LET rhs == evaluate(call.node.right, call.pre).value
        IN  IF call.node.op \in {"Divide", "Modulo"} /\ NearZero(rhs)
            THEN /\ ~call.result.ok
                 /\ call.result.err
                       = EvalError(IF call.node.op = "Divide"
                                   THEN "Division by zero"
                                   ELSE "Modulo by zero", <<>>, 0, 0)
            ELSE call.result.ok

(* 0 % -1e-13 has failed. *)
C12_Witness ==
    /\ BinaryWithOperands
    /\ call.node.op = "Modulo"
    /\ evaluate(call.node.left, call.pre).value = Zero
    /\ evaluate(call.node.right, call.pre).value = Fin(0 - MantLo, 0 - 16)
    /\ ~call.result.ok

(***************************************************************************)
(* Properties of evaluateFile and Repl::run, checked under FrontSpec.      *)
(***************************************************************************)
(* The line is one the loop hands to Calculator::evaluate. *)
IsStatementLine(op, line) ==
    /\ trim(line) # <<>>
    /\ op = "evaluateFile" => trim(line)[1] # "#"
    /\ op = "Repl::run" =>
           trim(line) \notin {<<"e", "x", "i", "t">>, <<"q", "u", "i", "t">>,
                              <<"h", "e", "l", "p">>,
                              <<"h", "i", "s", "t", "o", "r", "y">>}

(* The numbers of the statement lines among the first n lines, in order. *)
RECURSIVE StatementLines(_, _, _)
StatementLines(op, lines, n) ==
    IF n = 0 THEN <<>>
    ELSE IF IsStatementLine(op, lines[n])
    THEN Append(StatementLines(op, lines, n - 1), n)
    ELSE StatementLines(op, lines, n - 1)

(* C13: one bad line never stops the front end.  No line makes the loop
   end by an uncaught exception; every statement line read so far was
   evaluated, in order; evaluateFile returns only after the last line, with
   a status that is non-zero exactly when some line was reported; Repl::run
   returns only at the end of the input or on exit/quit. *)
C13_BadLineNeverStopsFrontEnd ==
    call.op \in {"evaluateFile", "Repl::run"} =>
        /\ call.status # "terminated"
        /\ call.evaluated = StatementLines(call.op, call.lines, call.line_number)
        /\ \A i \in 1..Len(call.reported) :
               call.reported[i] \in {call.evaluated[j] : j \in 1..Len(call.evaluated)}
        /\ call.status = "returned" /\ call.op = "evaluateFile" =>
               /\ call.line_number = Len(call.lines)
               /\ call.result # 0 <=> call.reported # <<>>
        /\ call.status = "returned" /\ call.op = "Repl::run" =>
               \/ call.line_number = Len(call.lines)
               \/ trim(call.lines[call.line_number])
                      \in {<<"e", "x", "i", "t">>, <<"q", "u", "i", "t">>}

(***************************************************************************)
(* Properties of the token sequence, checked under LexSpec.                *)
(***************************************************************************)
Tokenized == call.op = "tokenize" /\ call.ok

(* The 0-based positions of the text that the lexeme of some token covers. *)
Covered(tokens) ==
    UNION {{tokens[i].position + k : k \in 0..(Len(tokens[i].lexeme) - 1)} :
              i \in 1..Len(tokens)}

(* C14: when tokenize succeeds the sequence holds exactly one End token,
   the last one, positioned at the length of the input; every lexeme is the
   piece of the input at its position and holds no whitespace, and exactly
   the whitespace of the input is in no lexeme; positions are strictly
   increasing; and advance from any token of the sequence stays on a token
   of the sequence. *)
C14_OneEndTokenLastAtEndOfInput ==
    Tokenized =>
        /\ Len(call.tokens) >= 1
        /\ \A i \in 1..Len(call.tokens) :
               call.tokens[i].type = "End" <=> i = Len(call.tokens)
        /\ call.tokens[Len(call.tokens)].position = Len(call.text)
        /\ \A i \in 1..Len(call.tokens) :
               /\ \A k \in 1..Len(call.tokens[i].lexeme) :
                      /\ ~isspace(call.tokens[i].lexeme[k])
                      /\ call.tokens[i].position + k <= Len(call.text)
                      /\ call.tokens[i].lexeme[k] =
                             call.text[call.tokens[i].position + k]
               /\ i < Len(call.tokens) => Len(call.tokens[i].lexeme) > 0
        /\ \A p \in 0..(Len(call.text) - 1) :
               p \in Covered(call.tokens) <=> ~isspace(call.text[p + 1])
        /\ \A i \in 1..(Len(call.tokens) - 1) :
               call.tokens[i].position < call.tokens[i + 1].position
        /\ \A pos \in 0..(Len(call.tokens) - 1) :
               advance(call.tokens, pos) \in 0..(Len(call.tokens) - 1)

(* A text ending in whitespace, with whitespace between its tokens, has
   been tokenized. *)
C14_Witness ==
    /\ Tokenized
    /\ Len(call.tokens) >= 3
    /\ Len(call.text) > 0
    /\ isspace(call.text[Len(call.text)])
    /\ \E p \in 1..(Len(call.text) - 1) :
           /\ isspace(call.text[p])
           /\ p > call.tokens[1].position

(* The outcome is the failure of the evaluated child sub. *)
FailsAs(sub) == ~call.result.ok /\ call.result.err = sub.err

(* The first argument of the call node that fails on ctx, or 0. *)
FirstFailingArg(node, ctx) ==
    IF AllArgsOk(node, ctx) THEN 0
    ELSE CHOOSE i \in 1..Len(node.args) :
             /\ ~evaluate(node.args[i], ctx).ok
             /\ \A j \in 1..(i - 1) : evaluate(node.args[j], ctx).ok

(* C15: the error reported is the first met in a post-order, left-to-right
   walk.  A binary node whose left operand fails reports that error whatever
   the right operand and the operator are; else it reports the error of a
   failing right operand; only with both operands evaluated can it report
   division or modulo by zero.  A call reports the error of its first
   failing argument whatever its name and argument count are, and reports an
   unknown function or a wrong count only when every argument evaluated. *)
C15_FirstErrorInPostOrderWins ==
    /\ (Evaluated /\ call.node.kind = "Binary") =>
           IF ~evaluate(call.node.left, call.pre).ok
           THEN FailsAs(evaluate(call.node.left, call.pre))
           ELSE IF ~evaluate(call.node.right, call.pre).ok
           THEN FailsAs(evaluate(call.node.right, call.pre))
           ELSE \/ call.result.ok
                \/ /\ call.node.op \in {"Divide", "Modulo"}
                   /\ call.result.err.msg \in {"Division by zero",
                                               "Modulo by zero"}
    /\ (Evaluated /\ call.node.kind = "Call") =>
           IF FirstFailingArg(call.node, call.pre) # 0
           THEN FailsAs(evaluate(
                    call.node.args[FirstFailingArg(call.node, call.pre)],
                    call.pre))
           ELSE \/ call.result.ok
                \/ call.result.err.msg \in
                       {"Unknown function '%text'",
                        "Function '%text' expects %num argument(s) but got %num2",
                        "Function '%text' expects at least %num argument(s) but got %num2"}

(* A binary node whose operands fail with different errors has reported the
   error of the left one. *)
C15_Witness ==
    /\ Evaluated
    /\ call.node.kind = "Binary"
    /\ ~evaluate(call.node.left, call.pre).ok
    /\ ~evaluate(call.node.right, call.pre).ok
    /\ evaluate(call.node.left, call.pre).err
           # evaluate(call.node.right, call.pre).err
    /\ FailsAs(evaluate(call.node.left, call.pre))

================================================================================
